---- MODULE Spec2Model ----
(***************************************************************************)
(* Model of resume-analyzer-flask/app/main.py: the Flask handler of        *)
(* POST /analyze/ (analyze_resume_and_jd_flask).                           *)
(*                                                                         *)
(* A request is one activation of the handler.  Its frame holds the        *)
(* handler's local variables, trace[r] records what the environment gave   *)
(* back to it (the file reads, the three service functions, the response   *)
(* schema), and responses[r] what the HTTP client received.  Filenames are *)
(* sequences of one-character strings so that secure_filename, lower and   *)
(* endswith are computed on the text.                                      *)
(***************************************************************************)
EXTENDS Integers, Sequences, FiniteSets, TLC

VARIABLES initialization_error, clock, pc, files, frame, trace, responses

vars == <<initialization_error, clock, pc, files, frame, trace, responses>>

\* ---------------------------------------------------------------- bounds
MaxClock == 1

Requests == {"r1", "r2"}

\* -------------------------------------------------------------- filenames
ResumePdf     == <<"r", ".", "p", "d", "f">>
ResumePdfCaps == <<"R", ".", "P", "D", "F">>
ResumeDocx    == <<"r", ".", "d", "o", "c", "x">>
KanjiPdf      == <<"U+65E5", ".", "p", "d", "f">>
PdfSlashDot   == <<"r", ".", "p", "d", "f", "/", ".">>
NoName        == <<>>

Filenames == {ResumePdf, ResumePdfCaps, ResumeDocx, KanjiPdf, PdfSlashDot, NoName}

DotPdf == <<".", "p", "d", "f">>

Upper == {"R", "P", "D", "F"}
LowerCs == {"r", "p", "d", "f", "o", "c", "x"}
AsciiChars == Upper \cup LowerCs \cup {".", "/", " ", "_", "-"}

\* F applied to the value of v (v is evaluated once, as in a call)
Apply(F(_), v) == CHOOSE y \in {F(x) : x \in {v}} : TRUE

\* str.lower() on one character
LowerChar(c) ==
    CASE c = "R" -> "r"
      [] c = "P" -> "p"
      [] c = "D" -> "d"
      [] c = "F" -> "f"
      [] OTHER -> c

\* the filename compared as it is
lower_Identity(s) == s

lower(s) == [i \in 1..Len(s) |-> LowerChar(s[i])]

endswith(s, suffix) ==
    /\ Len(s) >= Len(suffix)
    /\ SubSeq(s, Len(s) - Len(suffix) + 1, Len(s)) = suffix

\* werkzeug.utils.secure_filename, step by step (posix):
\*   encode("ascii", "ignore"); os.sep -> " "; "_".join(split());
\*   drop [^A-Za-z0-9_.-]; strip("._")
AsciiOnly(s) == SelectSeq(s, LAMBDA c : c \in AsciiChars)

ReplaceSep(s) == [i \in 1..Len(s) |-> IF s[i] = "/" THEN " " ELSE s[i]]

RECURSIVE LStripSet(_, _)
LStripSet(s, cs) ==
    IF s # <<>> /\ Head(s) \in cs THEN LStripSet(Tail(s), cs) ELSE s

RECURSIVE RStripSet(_, _)
RStripSet(s, cs) ==
    IF s # <<>> /\ s[Len(s)] \in cs
    THEN RStripSet(SubSeq(s, 1, Len(s) - 1), cs)
    ELSE s

StripSet(s, cs) == RStripSet(LStripSet(s, cs), cs)

\* "_".join(s.split()) on a string without leading or trailing blanks
RECURSIVE JoinWords(_)
JoinWords(s) ==
    IF s = <<>> THEN <<>>
    ELSE IF Head(s) = " "
         THEN <<"_">> \o JoinWords(LStripSet(s, {" "}))
         ELSE <<Head(s)>> \o JoinWords(Tail(s))

StripBlanks(s) == StripSet(s, {" "})

SplitJoin(s) == Apply(JoinWords, Apply(StripBlanks, s))

SafeChars == Upper \cup LowerCs \cup {".", "_", "-"}

AsciiStrip(s) == SelectSeq(s, LAMBDA c : c \in SafeChars)

StripDots(s) == StripSet(s, {".", "_"})

secure_filename(name) ==
    Apply(StripDots,
      Apply(AsciiStrip,
        Apply(SplitJoin, Apply(ReplaceSep, Apply(AsciiOnly, name)))))

\* name.lower().endswith(".pdf")
IsPdfName(name) == LET EndsDotPdf(s) == endswith(s, DotPdf)
                   IN  Apply(EndsDotPdf, Apply(lower, name))

\* ----------------------------------------------------------------- inputs
Fields == {"resume_file", "jd_file"}

\* the bytes a client uploads in each field
Content(field) == IF field = "resume_file" THEN "A" ELSE "B"

\* request.files: the uploaded fields that are present, each with a filename
FileSets ==
    UNION {[present -> Filenames] : present \in SUBSET Fields}

InitErrors == {"", "model load failed"}

\* ------------------------------------------------------------- exceptions
ExcTypes == {"ValueError", "RuntimeError"}

Messages == {"m1"}

Exceptions == [type : ExcTypes, args : {<<>>} \cup {<<m>> : m \in Messages}]

\* str(e) of an exception built from at most one argument
str(e) == IF e.args = <<>> THEN "" ELSE e.args[1]

\* the first except clause catching every exception
IsValueError_Any(e) == TRUE

IsValueError(e) == e.type = "ValueError"

AnalysisResults == {"analysis1", "analysis2"}

SimilarityResults == {"sim1", "sim2"}

\* what a call can do: return a value or raise
Returned(v) == [raised |-> FALSE, value |-> v]

Raised(e) == [raised |-> TRUE, value |-> e]

RaiseOutcomes == {Raised(e) : e \in Exceptions}

\* a failing FileStorage.read()
ReadErrors == {Raised([type |-> "RuntimeError", args |-> <<"m1">>])}

\* the response schema turning down a result: pydantic's ValidationError, a
\* ValueError
SchemaErrors == {Raised([type |-> "ValueError", args |-> <<"m1">>])}

\* the opaque document set process_pdf_bytes returns for its arguments
Docs(bytes, filename) == [bytes |-> bytes, filename |-> filename]

\* -------------------------------------------------------------- responses
\* flask.abort(code, description): the framework's error page
Abort(code, description) ==
    [status |-> code, body |-> [description |-> description]]

\* an exception leaving the view function: the framework answers 500
Unhandled(e) ==
    [status |-> 500, body |-> [description |-> <<"Internal Server Error">>]]

\* jsonify(d), code
Json(d, code) == [status |-> code, body |-> d]

NoFrame ==
    [start_time |-> 0, resume_filename |-> <<>>, jd_filename |-> <<>>,
     resume_bytes |-> "", jd_bytes |-> "", resume_docs |-> "",
     jd_docs |-> "", analysis_result |-> "", similarity_result |-> ""]

Init ==
    /\ initialization_error \in InitErrors
    /\ clock = 0
    /\ pc = [r \in Requests |-> "idle"]
    /\ files = [r \in Requests |-> <<>>]
    /\ frame = [r \in Requests |-> NoFrame]
    /\ trace = [r \in Requests |-> <<>>]
    /\ responses = [r \in Requests |-> <<>>]

\* the locals kept in module globals, cleared at the end of any request
Finish_SharedFrame(r, resp) ==
    /\ responses' = [responses EXCEPT ![r] = Append(@, resp)]
    /\ pc' = [pc EXCEPT ![r] = "done"]
    /\ frame' = [q \in Requests |-> NoFrame]

\* the handler returns (or raises out of the view): the response goes out and
\* the frame is gone
Finish(r, resp) ==
    /\ responses' = [responses EXCEPT ![r] = Append(@, resp)]
    /\ pc' = [pc EXCEPT ![r] = "done"]
    /\ frame' = [frame EXCEPT ![r] = NoFrame]

Log(r, fn, args, outcome) ==
    trace' = [trace EXCEPT ![r] =
                 Append(@, [fn |-> fn, args |-> args, outcome |-> outcome])]

\* time passes
Tick ==
    /\ clock < MaxClock
    /\ clock' = clock + 1
    /\ UNCHANGED <<initialization_error, pc, files, frame, trace, responses>>

\* a POST /analyze/ arrives; start_time = time.time()
Receive(r) ==
    /\ pc[r] = "idle"
    /\ \E fs \in FileSets : files' = [files EXCEPT ![r] = fs]
    /\ frame' = [frame EXCEPT ![r].start_time = clock]
    /\ pc' = [pc EXCEPT ![r] = "checks"]
    /\ UNCHANGED <<initialization_error, clock, trace, responses>>

\* the initialization check left out
InitFailed_Never == FALSE

InitFailed == initialization_error # ""

MissingField(fs) ==
    "resume_file" \notin DOMAIN fs \/ "jd_file" \notin DOMAIN fs

MissingFilename(fs) == fs["resume_file"] = <<>> \/ fs["jd_file"] = <<>>

InvalidFileType(resume_filename, jd_filename) ==
    ~IsPdfName(resume_filename) \/ ~IsPdfName(jd_filename)

\* the missing field reported as an unprocessable entity
MissingFieldAbort_422 ==
    Abort(422, <<"Missing 'resume_file' or 'jd_file' in the request.">>)

MissingFieldAbort ==
    Abort(400, <<"Missing 'resume_file' or 'jd_file' in the request.">>)

\* initial checks and file validation
Checks(r) ==
    /\ pc[r] = "checks"
    /\ IF InitFailed
       THEN Finish(r, Abort(503,
                <<"API service unavailable due to initialization failure: ",
                  initialization_error>>))
       ELSE IF MissingField(files[r])
       THEN Finish(r, MissingFieldAbort)
       ELSE IF MissingFilename(files[r])
       THEN Finish(r, Abort(400, <<"Uploaded files must have filenames.">>))
       ELSE LET resume_filename == secure_filename(files[r]["resume_file"])
                jd_filename == secure_filename(files[r]["jd_file"])
            IN  IF InvalidFileType(resume_filename, jd_filename)
                THEN Finish(r, Abort(400,
                    <<"Invalid file type. Please upload PDF files only.">>))
                ELSE /\ frame' = [frame EXCEPT
                                     ![r].resume_filename = resume_filename,
                                     ![r].jd_filename = jd_filename]
                     /\ pc' = [pc EXCEPT ![r] = "read"]
                     /\ UNCHANGED responses
    /\ UNCHANGED <<initialization_error, clock, files, trace>>

\* a failing read logged and passed over: the handler goes on with no bytes
ReadFiles_Swallow(r) ==
    /\ pc[r] = "read"
    /\ \E o1 \in {Returned(Content("resume_file"))} \cup ReadErrors,
          o2 \in {Returned(Content("jd_file"))} \cup ReadErrors :
         /\ trace' = [trace EXCEPT ![r] =
               @ \o <<[fn |-> "read", args |-> <<"resume_file">>,
                       outcome |-> o1],
                      [fn |-> "read", args |-> <<"jd_file">>,
                       outcome |-> o2]>>]
         /\ frame' = [frame EXCEPT
                         ![r].resume_bytes = IF o1.raised THEN "" ELSE o1.value,
                         ![r].jd_bytes = IF o2.raised THEN "" ELSE o2.value]
         /\ pc' = [pc EXCEPT ![r] = "parse_resume"]
         /\ UNCHANGED responses
    /\ UNCHANGED <<initialization_error, clock, files>>

\* resume_file.read(); jd_file.read(); a failing read aborts with 400
ReadFiles(r) ==
    /\ pc[r] = "read"
    /\ \E o1 \in {Returned(Content("resume_file"))} \cup ReadErrors :
         IF o1.raised
         THEN /\ trace' = [trace EXCEPT ![r] =
                    Append(@, [fn |-> "read", args |-> <<"resume_file">>,
                               outcome |-> o1])]
              /\ Finish(r, Abort(400,
                    <<"Failed to read file content: ", str(o1.value), ".">>))
         ELSE \E o2 \in {Returned(Content("jd_file"))} \cup ReadErrors :
                /\ trace' = [trace EXCEPT ![r] =
                      @ \o <<[fn |-> "read", args |-> <<"resume_file">>,
                              outcome |-> o1],
                             [fn |-> "read", args |-> <<"jd_file">>,
                              outcome |-> o2]>>]
                /\ IF o2.raised
                   THEN Finish(r, Abort(400,
                        <<"Failed to read file content: ", str(o2.value), ".">>))
                   ELSE /\ frame' = [frame EXCEPT
                                        ![r].resume_bytes = o1.value,
                                        ![r].jd_bytes = o2.value]
                        /\ pc' = [pc EXCEPT ![r] = "parse_resume"]
                        /\ UNCHANGED responses
    /\ UNCHANGED <<initialization_error, clock, files>>

\* the handler putting a fixed text in detail
ExceptHandler_FixedDetail(e) ==
    IF e.type = "ValueError"
    THEN Json([error |-> "Processing Error", detail |-> "processing failed"], 422)
    ELSE Json([error |-> "Internal Server Error", detail |-> "internal error"], 500)

\* except ValueError as ve / except Exception as e
ExceptHandler(e) ==
    IF IsValueError(e)
    THEN Json([error |-> "Processing Error", detail |-> str(e)], 422)
    ELSE Json([error |-> "Internal Server Error", detail |-> str(e)], 500)

\* a service call tried again after it raised
ServiceCall_Retry(r, at, fn, args, results, local, next) ==
    /\ pc[r] = at
    /\ \E o \in {Returned(v) : v \in results} \cup RaiseOutcomes :
         /\ Log(r, fn, args, o)
         /\ IF o.raised
            THEN UNCHANGED <<pc, frame, responses>>
            ELSE /\ frame' = [frame EXCEPT ![r][local] = o.value]
                 /\ pc' = [pc EXCEPT ![r] = next]
                 /\ UNCHANGED responses
    /\ UNCHANGED <<initialization_error, clock, files>>

\* one service call inside the try block: the call is made with args, the
\* environment picks its outcome among results (or an exception); a return is
\* bound to the local variable and control moves on, a raise goes to the
\* except clauses
ServiceCall(r, at, fn, args, results, local, next) ==
    /\ pc[r] = at
    /\ \E o \in {Returned(v) : v \in results} \cup RaiseOutcomes :
         /\ Log(r, fn, args, o)
         /\ IF o.raised
            THEN Finish(r, ExceptHandler(o.value))
            ELSE /\ frame' = [frame EXCEPT ![r][local] = o.value]
                 /\ pc' = [pc EXCEPT ![r] = next]
                 /\ UNCHANGED responses
    /\ UNCHANGED <<initialization_error, clock, files>>

\* resume_docs = process_pdf_bytes(resume_bytes, resume_filename)
ParseResume(r) ==
    ServiceCall(r, "parse_resume", "process_pdf_bytes",
                <<frame[r].resume_bytes, frame[r].resume_filename>>,
                {Docs(frame[r].resume_bytes, frame[r].resume_filename)},
                "resume_docs", "parse_jd")

\* jd_docs = process_pdf_bytes(jd_bytes, jd_filename)
ParseJd(r) ==
    ServiceCall(r, "parse_jd", "process_pdf_bytes",
                <<frame[r].jd_bytes, frame[r].jd_filename>>,
                {Docs(frame[r].jd_bytes, frame[r].jd_filename)},
                "jd_docs", "analyze")

\* analysis_result = perform_resume_analysis(resume_docs)
Analyze(r) ==
    ServiceCall(r, "analyze", "perform_resume_analysis",
                <<frame[r].resume_docs>>, AnalysisResults,
                "analysis_result", "similarity")

\* similarity_result = calculate_resume_jd_similarity(resume_docs, jd_docs)
Similarity(r) ==
    ServiceCall(r, "similarity", "calculate_resume_jd_similarity",
                <<frame[r].resume_docs, frame[r].jd_docs>>, SimilarityResults,
                "similarity_result", "respond")

\* the envelope with its two results exchanged
ResponseDict_Swapped(analysis_result, similarity_result, processing_time) ==
    [resume_analysis |-> similarity_result,
     similarity_results |-> analysis_result,
     processing_time_seconds |-> processing_time]

\* AnalysisAndSimilarityResponse(...).model_dump(mode='json')
ResponseDict(analysis_result, similarity_result, processing_time) ==
    [resume_analysis |-> analysis_result,
     similarity_results |-> similarity_result,
     processing_time_seconds |-> processing_time]

\* end_time = time.time(); build the envelope, dump it and answer 200; the
\* schema's validation and the dump run outside any try block
Respond(r) ==
    /\ pc[r] = "respond"
    /\ LET processing_time == clock - frame[r].start_time
           response_dict == ResponseDict(frame[r].analysis_result,
                                         frame[r].similarity_result,
                                         processing_time)
       IN  \E o \in {Returned(response_dict)} \cup SchemaErrors :
             /\ Log(r, "AnalysisAndSimilarityResponse",
                    <<frame[r].analysis_result, frame[r].similarity_result>>,
                    IF o.raised THEN o ELSE Returned("envelope"))
             /\ IF o.raised
                THEN Finish(r, Unhandled(o.value))
                ELSE Finish(r, Json(o.value, 200))
    /\ UNCHANGED <<initialization_error, clock, files>>

Handle(r) ==
    \/ Receive(r)
    \/ Checks(r)
    \/ ReadFiles(r)
    \/ ParseResume(r)
    \/ ParseJd(r)
    \/ Analyze(r)
    \/ Similarity(r)
    \/ Respond(r)

Next ==
    \/ Tick
    \/ \E r \in Requests : Handle(r)

Spec == Init /\ [][Next]_vars

\* one client: the other request never arrives
InitOne ==
    /\ initialization_error \in InitErrors
    /\ clock = 0
    /\ pc = [r \in Requests |-> IF r = "r1" THEN "idle" ELSE "absent"]
    /\ files = [r \in Requests |-> <<>>]
    /\ frame = [r \in Requests |-> NoFrame]
    /\ trace = [r \in Requests |-> <<>>]
    /\ responses = [r \in Requests |-> <<>>]

\* the server runs every handler it has started to its end, and every call the
\* handler makes returns or raises
FairSpec ==
    InitOne /\ [][Next]_vars /\ \A r \in Requests : WF_vars(Handle(r))

TypeOK ==
    /\ initialization_error \in InitErrors
    /\ clock \in 0..MaxClock
    /\ \A r \in Requests : Len(responses[r]) <= 1

\* ------------------------------------------------------------------------
\* Vocabulary of the properties
\* ------------------------------------------------------------------------
Collaborators ==
    {"process_pdf_bytes", "perform_resume_analysis",
     "calculate_resume_jd_similarity"}

Done(r) == pc[r] = "done"

Resp(r) == responses[r][1]

StatusIs(r, code) == Done(r) /\ Resp(r).status = code

\* the collaborator calls request r has made, in order
Calls(r) == SelectSeq(trace[r], LAMBDA c : c.fn \in Collaborators)

BothPresent(r) == DOMAIN files[r] = Fields

\* every spelling of ".pdf"
PdfSuffixes ==
    {<<".", a, b, c>> : a \in {"p", "P"}, b \in {"d", "D"}, c \in {"f", "F"}}

EndsInPdf(name) ==
    LET Ends(s) == \E suffix \in PdfSuffixes : endswith(s, suffix)
    IN  Apply(Ends, name)

\* the message an exception carries
MessageOf(e) == IF Len(e.args) = 0 THEN "" ELSE e.args[1]

\* the handler of r is past the validation of section 4.3: both reads returned
Validated(r) ==
    /\ Len(trace[r]) >= 2
    /\ trace[r][1].fn = "read" /\ ~trace[r][1].outcome.raised
    /\ trace[r][2].fn = "read" /\ ~trace[r][2].outcome.raised

SomeRaised(r) == \E i \in 1..Len(trace[r]) : trace[r][i].outcome.raised

\* ------------------------------------------------------------------------
\* C1: when the initialization error is non-empty every request, whatever it
\* uploads, is answered 503 and makes no collaborator call; and no step
\* changes the initialization error.
C1_InitFailureLatch ==
    /\ [](initialization_error # "" =>
            \A r \in Requests :
                /\ Calls(r) = <<>>
                /\ Done(r) => Resp(r).status = 503)
    /\ [][initialization_error' = initialization_error]_vars

C1_Witness ==
    /\ initialization_error # ""
    /\ \E r \in Requests :
         /\ Done(r)
         /\ files[r] = [f \in Fields |-> ResumePdf]
         /\ Resp(r).status = 503

\* C2 as claimed: a request lacking resume_file or jd_file is answered 400
\* with no collaborator call, whatever the initialization error.
C2_MissingFieldAlways400 ==
    \A r \in Requests :
        (Done(r) /\ ~BothPresent(r)) =>
            (Resp(r).status = 400 /\ Calls(r) = <<>>)

\* C2 amended: when the initialization error is empty, a request lacking
\* resume_file or jd_file is answered 400 with no collaborator call.
C2_MissingField400 ==
    \A r \in Requests :
        (initialization_error = "" /\ Done(r) /\ ~BothPresent(r)) =>
            (Resp(r).status = 400 /\ Calls(r) = <<>>)

C2_Witness ==
    /\ initialization_error = ""
    /\ \E r \in Requests :
         /\ Done(r)
         /\ DOMAIN files[r] = {"resume_file"}
         /\ files[r]["resume_file"] = ResumePdf
         /\ Resp(r).status = 400

\* the request was turned down by the file-type check
TypeRejected(r) ==
    /\ Done(r)
    /\ trace[r] = <<>>
    /\ Resp(r).status = 400

\* the request went past the file-type check: the files are read
TypeAccepted(r) == pc[r] = "read" \/ trace[r] # <<>>

NamesGiven(r) ==
    /\ pc[r] \notin {"idle", "checks"}
    /\ BothPresent(r)
    /\ \A f \in Fields : files[r][f] # <<>>

\* C3 as claimed: with both fields present and named, an uploaded filename
\* that does not end in ".pdf" (any case) gives 400 and no collaborator call,
\* and uploaded filenames that do end in ".pdf" pass the file-type check.
C3_UploadedNameDecides ==
    \A r \in Requests :
        NamesGiven(r) =>
            /\ (\E f \in Fields : ~EndsInPdf(files[r][f])) =>
                   (StatusIs(r, 400) /\ Calls(r) = <<>>)
            /\ (\A f \in Fields : EndsInPdf(files[r][f])) => ~TypeRejected(r)

\* C3 amended: with an empty initialization error, both fields present and
\* named, the filename secure_filename returns decides: if it does not end in
\* ".pdf" (any case) for either file the answer is 400 with no collaborator
\* call, and if it does for both the request passes the file-type check.
C3_SanitisedNameDecides ==
    \A r \in Requests :
        (initialization_error = "" /\ NamesGiven(r)) =>
            /\ (\E f \in Fields : ~EndsInPdf(secure_filename(files[r][f]))) =>
                   (TypeRejected(r) /\ Calls(r) = <<>>)
            /\ (\A f \in Fields : EndsInPdf(secure_filename(files[r][f]))) =>
                   TypeAccepted(r)

C3_Witness ==
    /\ initialization_error = ""
    /\ \E r, q \in Requests :
         /\ files[r] = [f \in Fields |-> ResumePdfCaps] /\ TypeAccepted(r)
         /\ BothPresent(q) /\ files[q]["resume_file"] = ResumeDocx
         /\ files[q]["jd_file"] = ResumePdf /\ TypeRejected(q)

\* the entries of r's trace that are collaborator calls which raised
RaisedCalls(r) ==
    {i \in 1..Len(trace[r]) :
        trace[r][i].fn \in Collaborators /\ trace[r][i].outcome.raised}

\* C4: when a collaborator call of a validated request raises a ValueError,
\* the answer is 422 with body {"error": "Processing Error", "detail": m}, m
\* the message of that error.
C4_ValueErrorIs422 ==
    \A r \in Requests : \A i \in RaisedCalls(r) :
        LET e == trace[r][i].outcome.value
        IN  e.type = "ValueError" =>
                /\ StatusIs(r, 422)
                /\ Resp(r).body =
                       [error |-> "Processing Error", detail |-> MessageOf(e)]

C4_Witness ==
    \E r \in Requests :
        /\ Len(Calls(r)) = 3
        /\ Calls(r)[3].outcome = Raised([type |-> "ValueError", args |-> <<"m1">>])
        /\ StatusIs(r, 422)

\* C5: when a collaborator call of a validated request raises an error that
\* is not a ValueError, the answer is 500 with error "Internal Server Error".
C5_OtherErrorIs500 ==
    \A r \in Requests : \A i \in RaisedCalls(r) :
        LET e == trace[r][i].outcome.value
        IN  e.type # "ValueError" =>
                /\ StatusIs(r, 500)
                /\ "error" \in DOMAIN Resp(r).body
                /\ Resp(r).body.error = "Internal Server Error"

C5_Witness ==
    \E r \in Requests :
        /\ Len(Calls(r)) = 4
        /\ Calls(r)[4].outcome.raised
        /\ Calls(r)[4].outcome.value.type = "RuntimeError"
        /\ StatusIs(r, 500)

ResultFields == {"resume_analysis", "similarity_results"}

\* C6: an answer of 200 comes only after all four collaborator calls returned,
\* and carries the analysis and the similarity result returned in that
\* request; when any step raised, the answer carries neither result.
C6_NoPartialResults ==
    \A r \in Requests :
        Done(r) =>
            /\ Resp(r).status = 200 =>
                   /\ Len(Calls(r)) = 4
                   /\ \A i \in 1..4 : ~Calls(r)[i].outcome.raised
                   /\ Calls(r)[3].fn = "perform_resume_analysis"
                   /\ Calls(r)[4].fn = "calculate_resume_jd_similarity"
                   /\ Resp(r).body.resume_analysis = Calls(r)[3].outcome.value
                   /\ Resp(r).body.similarity_results = Calls(r)[4].outcome.value
            /\ SomeRaised(r) =>
                   /\ Resp(r).status # 200
                   /\ DOMAIN Resp(r).body \cap ResultFields = {}

C6_Witness ==
    \E r, q \in Requests :
        /\ StatusIs(r, 200)
        /\ Resp(r).body.resume_analysis = "analysis2"
        /\ Resp(r).body.similarity_results = "sim1"
        /\ Done(q) /\ Len(Calls(q)) = 4 /\ Calls(q)[4].outcome.raised

\* C7 as claimed: every failure after validation, up to and including the
\* building and serialising of the response envelope, is answered 422 or 500
\* with a body of exactly the fields error and detail, and every 500 carries
\* error = "Internal Server Error".
C7_ErrorBodyShape ==
    \A r \in Requests :
        (Done(r) /\ Validated(r) /\ SomeRaised(r)) =>
            /\ Resp(r).status \in {422, 500}
            /\ DOMAIN Resp(r).body = {"error", "detail"}
            /\ Resp(r).status = 500 =>
                   Resp(r).body.error = "Internal Server Error"

\* two requests given the same upload and the same outcomes of their calls
SameRun(r, q) == files[r] = files[q] /\ trace[r] = trace[q]

WithoutTime(body) ==
    [f \in DOMAIN body \ {"processing_time_seconds"} |-> body[f]]

\* what belongs to request r
Own(r) == <<pc[r], files[r], frame[r], trace[r], responses[r]>>

\* C8 as claimed: status and body of a request are determined by its own
\* upload, the outcomes of its own calls and the initialization error.
C8_ResponseDetermined ==
    \A r, q \in Requests :
        (Done(r) /\ Done(q) /\ SameRun(r, q)) => Resp(r) = Resp(q)

\* C8 amended: the status and the body apart from processing_time_seconds
\* (the wall-clock time the request took) are determined by the request's own
\* upload, the outcomes of its own calls and the initialization error; no step
\* writes the initialization error, and no step of one request changes
\* anything of another.
C8_RequestsIsolated ==
    /\ [](\A r, q \in Requests :
            (Done(r) /\ Done(q) /\ SameRun(r, q)) =>
                /\ Resp(r).status = Resp(q).status
                /\ WithoutTime(Resp(r).body) = WithoutTime(Resp(q).body))
    /\ [][/\ initialization_error' = initialization_error
          /\ \A r, q \in Requests :
                (r # q /\ Own(r)' # Own(r)) => Own(q)' = Own(q)]_vars

C8_Witness ==
    \E r, q \in Requests :
        /\ r # q /\ SameRun(r, q)
        /\ StatusIs(r, 200) /\ StatusIs(q, 200)
        /\ Resp(r).body.processing_time_seconds
               # Resp(q).body.processing_time_seconds

CallOrder ==
    <<"process_pdf_bytes", "process_pdf_bytes", "perform_resume_analysis",
      "calculate_resume_jd_similarity">>

\* C9: the collaborator calls of a request are, in this order, ParsePdf of the
\* resume, ParsePdf of the job description, Analyze of the parsed resume and
\* CompareSimilarity of both parsed documents; each is made at most once, only
\* after all earlier ones returned, and none after one has raised.
C9_CallOrder ==
    \A r \in Requests :
        LET c == Calls(r)
            n == Len(c)
        IN  /\ n <= 4
            /\ \A i \in 1..n :
                  /\ c[i].fn = CallOrder[i]
                  /\ i < n => ~c[i].outcome.raised
            /\ n >= 1 =>
                  c[1].args = <<"A", secure_filename(files[r]["resume_file"])>>
            /\ n >= 2 =>
                  c[2].args = <<"B", secure_filename(files[r]["jd_file"])>>
            /\ n >= 3 => c[3].args = <<c[1].outcome.value>>
            /\ n >= 4 => c[4].args = <<c[1].outcome.value, c[2].outcome.value>>
            /\ (n >= 1 /\ c[n].outcome.raised) => Done(r)

C9_Witness ==
    \E r, q \in Requests :
        /\ Len(Calls(r)) = 4 /\ ~Calls(r)[4].outcome.raised
        /\ Len(Calls(q)) = 2 /\ Calls(q)[2].outcome.raised /\ Done(q)

Statuses == {200, 400, 422, 500, 503}

\* C10: every request gets exactly one response, with a status among 200,
\* 400, 422, 500 and 503; a 200 is given only when no check failed and
\* nothing raised; and every request received is eventually answered.
C10_OneResponse ==
    /\ [](\A r \in Requests :
            /\ Len(responses[r]) = (IF Done(r) THEN 1 ELSE 0)
            /\ Done(r) => Resp(r).status \in Statuses
            /\ StatusIs(r, 200) =>
                  /\ initialization_error = ""
                  /\ BothPresent(r)
                  /\ \A f \in Fields :
                        /\ files[r][f] # <<>>
                        /\ EndsInPdf(secure_filename(files[r][f]))
                  /\ ~SomeRaised(r))
    /\ \A r \in Requests : (pc[r] = "checks") ~> Done(r)

C10_Witness ==
    /\ StatusIs("r1", 400)
    /\ Len(trace["r1"]) = 2
    /\ trace["r1"][2].outcome.raised

====
